---- MODULE Spec2Model ----
(***************************************************************************)
(* A model of phonemizer's espeak backend                                  *)
(* (src/phonemizer/backend/espeak.py): EspeakBackend.__init__,             *)
(* _process_lang_switch and _phonemize_aux.                                *)
(*                                                                         *)
(* A Python str is a sequence of one-character strings, so that split,     *)
(* replace, strip, slicing and the regular expressions are computed        *)
(* character by character, as Python computes them.  The external engine  *)
(* (the espeak subprocess) is an input: each utterance's raw output is     *)
(* drawn from a finite set of lines.                                       *)
(***************************************************************************)
EXTENDS Integers, Sequences, FiniteSets, TLC

VARIABLES
    lang_switch,        \* self._lang_switch: the language-switch policy
    with_stress,        \* self._with_stress
    sampa_mapping,      \* self.sampa_mapping: NoMapping or a sequence of <<k, v>>
    lang_switch_list,   \* self._lang_switch_list: the language-switch report
    pc,                 \* "idle": no run in progress; "loop": inside _phonemize_aux
    runs,               \* number of _phonemize_aux calls made on this instance
    total,              \* number of utterances of the current run, len(text.split('\n'))
    n,                  \* number of utterances the loop has gone through
    separator,          \* the run's separator: [phone, word]
    strip,              \* the run's strip argument
    output,             \* the local list output
    mappings,           \* the local list text_word_to_phoneme_word_mapping
    outcome,            \* how the last run ended: "none", "returned", "raised"
    warnings,           \* the logger.warning calls of the last finished run
    last                \* what the loop body did with the last utterance

vars == <<lang_switch, with_stress, sampa_mapping, lang_switch_list, pc, runs,
          total, n, separator, strip, output, mappings, outcome, warnings, last>>

----------------------------------------------------------------------------
(* Bounds of the model.                                                    *)

MaxUtterances == 2

MaxRuns == 2

MaxTokenLen == 3

MaxFieldLen == 5

----------------------------------------------------------------------------
(* Python str and list primitives.                                         *)

StartsWith(s, p) == Len(p) <= Len(s) /\ SubSeq(s, 1, Len(p)) = p

Drop(s, k) == SubSeq(s, k + 1, Len(s))

\* str.replace(old, new) for a non-empty old: leftmost, non-overlapping.
RECURSIVE Replace(_, _, _)
Replace(s, old, new) ==
    IF s = <<>> THEN <<>>
    ELSE IF StartsWith(s, old) THEN new \o Replace(Drop(s, Len(old)), old, new)
    ELSE <<Head(s)>> \o Replace(Tail(s), old, new)

RECURSIVE SplitAcc(_, _, _)
SplitAcc(s, sep, cur) ==
    IF s = <<>> THEN <<cur>>
    ELSE IF StartsWith(s, sep) THEN <<cur>> \o SplitAcc(Drop(s, Len(sep)), sep, <<>>)
    ELSE SplitAcc(Tail(s), sep, Append(cur, Head(s)))

\* str.split(sep) for a non-empty sep.
Split(s, sep) == SplitAcc(s, sep, <<>>)

Whitespace == {" ", "\n"}

RECURSIVE LStrip(_)
LStrip(s) == IF s # <<>> /\ Head(s) \in Whitespace THEN LStrip(Tail(s)) ELSE s

RECURSIVE RStrip(_)
RStrip(s) ==
    IF s # <<>> /\ s[Len(s)] \in Whitespace THEN RStrip(SubSeq(s, 1, Len(s) - 1)) ELSE s

\* str.strip()
Strip(s) == RStrip(LStrip(s))

\* re.sub(r'_+', '_', s)
RECURSIVE SubUnderscores(_)
SubUnderscores(s) ==
    IF s = <<>> THEN <<>>
    ELSE IF Head(s) = "_" /\ Len(s) > 1 /\ s[2] = "_" THEN SubUnderscores(Tail(s))
    ELSE <<Head(s)>> \o SubUnderscores(Tail(s))

\* re.findall(_ESPEAK_FLAGS_RE, s) with _ESPEAK_FLAGS_RE = r'\(.+?\)': from the
\* leftmost "(", at least one character other than a newline, up to the first ")".
RECURSIVE FindFlags(_)
FindFlags(s) ==
    IF s = <<>> THEN <<>>
    ELSE LET ends == {k \in 3..Len(s) :
                        /\ s[k] = ")"
                        /\ \A i \in 2..(k - 1) : s[i] # "\n"
                        /\ \A i \in 3..(k - 1) : s[i] # ")"}
         IN  IF Head(s) = "(" /\ ends # {}
             THEN LET k == CHOOSE e \in ends : TRUE
                  IN  <<SubSeq(s, 1, k)>> \o FindFlags(Drop(s, k))
             ELSE FindFlags(Tail(s))

Range(f) == {f[i] : i \in DOMAIN f}

----------------------------------------------------------------------------
(* Values of the program.                                                  *)

\* Python's None and a str value, for a variable that holds either.
None == [none |-> TRUE, v |-> <<>>]

Some(s) == [none |-> FALSE, v |-> s]

\* sampa_mapping is None (use_sampa unset, or no mapping file).
NoMapping == <<>>

valid_lang_switch == {"keep-flags", "remove-flags", "remove-utterance"}

\* '~|~|~': delimits the word mappings and the phonemized text.
GroupDelim == <<"~", "|", "~", "|", "~">>

\* '~|||~': delimits a mapping's original text and its phonemes.
PairDelim == <<"~", "|", "|", "|", "~">>

\* The four stress markers removed when with_stress is unset.
StressMarks == <<"ˈ", "ˌ", "'", "-">>

----------------------------------------------------------------------------
(* _process_lang_switch.                                                   *)

\* for flag in set(flags): utt = utt.replace(flag, '').  A set of str is
\* iterated in an order the interpreter's hash seed decides: every order is
\* a possible outcome.
\* RemoveFlags leaving the loop after its first flag.
RemoveOneFlag(utt, flags) ==
    IF flags = {} THEN {utt} ELSE {Replace(utt, f, <<>>) : f \in flags}

RECURSIVE RemoveFlags(_, _)
RemoveFlags(utt, flags) ==
    IF flags = {} THEN {utt}
    ELSE UNION {RemoveFlags(Replace(utt, f, <<>>), flags \ {f}) : f \in flags}

\* Whether _process_lang_switch appends the line number to the report.
LangSwitchDetected(utt) == FindFlags(utt) # <<>>

\* The values _process_lang_switch can return for utt under a policy.
process_lang_switch(policy, utt) ==
    LET flags == FindFlags(utt)
    IN  IF flags = <<>> THEN {Some(utt)}
        ELSE IF policy = "keep-flags" THEN {Some(utt)}
        ELSE IF policy = "remove-flags"
             THEN {Some(r) : r \in RemoveFlags(utt, Range(flags))}
        ELSE {None}

----------------------------------------------------------------------------
(* _phonemize_aux: one utterance.                                          *)

\* line.strip().replace('\n', ' ').replace('  ', ' '), then
\* re.sub(r'_+', '_', line) and re.sub(r'_ ', ' ', line).
Normalize(raw) ==
    Replace(SubUnderscores(Replace(Replace(Strip(raw), <<"\n">>, <<" ">>),
                                   <<" ", " ">>, <<" ">>)),
            <<"_", " ">>, <<" ">>)

\* The normalization of a mapping's original text: one leading and then one
\* trailing space removed.  Indexing an empty str raises IndexError.
\* StripSource with "while" in place of its two "if": every leading and
\* trailing space goes.
StripSourceAll(src) ==
    IF LStrip(src) = <<>> THEN [err |-> TRUE, v |-> <<>>]
    ELSE [err |-> FALSE, v |-> Strip(src)]

StripSource(src) ==
    IF src = <<>> THEN [err |-> TRUE, v |-> <<>>]
    ELSE LET a == IF src[1] = " " THEN Tail(src) ELSE src
         IN  IF a = <<>> THEN [err |-> TRUE, v |-> <<>>]
             ELSE [err |-> FALSE,
                   v |-> IF a[Len(a)] = " " THEN SubSeq(a, 1, Len(a) - 1) ELSE a]

\* One mapping: text_and_phoneme after the split and the two fix-ups.
\* text_and_phoneme[1] raises IndexError when the split gives one field; the
\* fields after the second stay in the list.
ParseMapping(mapping) ==
    LET text_and_phoneme == Split(mapping, PairDelim)
    IN  IF Len(text_and_phoneme) < 2 THEN [err |-> TRUE, v |-> <<>>]
        ELSE LET phon == Replace(text_and_phoneme[2], <<"|", "|">>, <<" ">>)
                 src  == StripSource(text_and_phoneme[1])
             IN  IF src.err THEN [err |-> TRUE, v |-> <<>>]
                 ELSE [err |-> FALSE,
                       v |-> <<src.v, phon>> \o SubSeq(text_and_phoneme, 3,
                                                      Len(text_and_phoneme))]

RECURSIVE ParseMappings(_)
ParseMappings(ms) ==
    IF ms = <<>> THEN [err |-> FALSE, v |-> <<>>]
    ELSE LET first == ParseMapping(Head(ms))
             rest  == ParseMappings(Tail(ms))
         IN  IF first.err \/ rest.err THEN [err |-> TRUE, v |-> <<>>]
             ELSE [err |-> FALSE, v |-> <<first.v>> \o rest.v]

\* The split on '~|~|~': the phonemized text is the last element, the
\* mappings are the elements before it (no mappings: the table stays []).
ParseLine(line) ==
    LET mappings_and_phonemized_text == Split(line, GroupDelim)
        k == Len(mappings_and_phonemized_text)
        t == ParseMappings(SubSeq(mappings_and_phonemized_text, 1, k - 1))
    IN  [err |-> t.err, text |-> mappings_and_phonemized_text[k], table |-> t.v]

RECURSIVE RemoveStress(_, _)
RemoveStress(w, marks) ==
    IF marks = <<>> THEN w
    ELSE RemoveStress(Replace(w, <<Head(marks)>>, <<>>), Tail(marks))

\* Remap with w.replace(k, v, 1): the first occurrence only.
RECURSIVE ReplaceOnce(_, _, _)
ReplaceOnce(s, old, new) ==
    IF s = <<>> THEN <<>>
    ELSE IF StartsWith(s, old) THEN new \o Drop(s, Len(old))
    ELSE <<Head(s)>> \o ReplaceOnce(Tail(s), old, new)

RECURSIVE RemapOnce(_, _)
RemapOnce(w, mapping) ==
    IF mapping = <<>> THEN w
    ELSE RemapOnce(ReplaceOnce(w, Head(mapping)[1], Head(mapping)[2]), Tail(mapping))

\* for k, v in self.sampa_mapping.items(): w = w.replace(k, v)
RECURSIVE Remap(_, _)
Remap(w, mapping) ==
    IF mapping = <<>> THEN w
    ELSE Remap(Replace(w, Head(mapping)[1], Head(mapping)[2]), Tail(mapping))

\* One word of the phonemized text, before the phone separator is set.
Word(word, stress, mapping) ==
    LET w1 == Strip(word)
        w2 == IF ~stress THEN RemoveStress(w1, StressMarks) ELSE w1
    IN  Remap(w2, mapping)

\* The word with the separators: w += '_' unless strip, '_' replaced by the
\* phone separator, then the word separator appended.
Separated(w, sep, st) ==
    LET w1 == IF ~st THEN Append(w, "_") ELSE w
    IN  Replace(w1, <<"_">>, sep.phone) \o sep.word

RECURSIVE JoinWords(_, _, _, _, _)
JoinWords(words, stress, mapping, sep, st) ==
    IF words = <<>> THEN <<>>
    ELSE Separated(Word(Head(words), stress, mapping), sep, st)
         \o JoinWords(Tail(words), stress, mapping, sep, st)

\* out_line[:-len(separator.word)]
StripTrailing(out_line, sep) ==
    LET k == Len(sep.word)
    IN  IF k = 0 THEN <<>>
        ELSE IF k >= Len(out_line) THEN <<>>
        ELSE SubSeq(out_line, 1, Len(out_line) - k)

\* out_line: the words of the phonemized text, each processed and followed
\* by the word separator, and the strip.
Assemble(line, stress, mapping, sep, st) ==
    LET out_line == JoinWords(Split(line, <<" ">>), stress, mapping, sep, st)
    IN  IF st THEN StripTrailing(out_line, sep) ELSE out_line

\* Summary counting the distinct line numbers of the report.
SummaryDistinct(policy, report) ==
    LET nswitches == Cardinality(Range(report))
    IN  IF report = <<>> THEN <<>>
        ELSE IF policy = "remove-utterance"
             THEN <<[msg |-> "removed utterances", nswitches |-> nswitches]>>
        ELSE <<[msg |-> "found utterances", nswitches |-> nswitches,
                lines |-> report],
               [msg |-> "extra phones"],
               [msg |-> IF policy = "remove-flags" THEN "flags removed"
                        ELSE "flags kept"]>>

\* The warnings at the end of _phonemize_aux.
Summary(policy, report) ==
    IF report = <<>> THEN <<>>
    ELSE IF policy = "remove-utterance"
         THEN <<[msg |-> "removed utterances", nswitches |-> Len(report)]>>
    ELSE <<[msg |-> "found utterances", nswitches |-> Len(report), lines |-> report],
           [msg |-> "extra phones"],
           [msg |-> IF policy = "remove-flags" THEN "flags removed" ELSE "flags kept"]>>

----------------------------------------------------------------------------
(* The state machine.                                                      *)

\* last before any utterance of a run has been processed.
NoLast ==
    [lineno |-> 0, raw |-> <<>>, line |-> <<>>, detected |-> FALSE, ret |-> None,
     skipped |-> FALSE, err |-> FALSE, text |-> <<>>, table |-> <<>>,
     out |-> <<>>]

\* EspeakBackend.__init__: the policy is checked, the report starts empty.
Constructed(policy, stress, mapping) ==
    /\ policy \in valid_lang_switch
    /\ lang_switch = policy
    /\ with_stress = stress
    /\ sampa_mapping = mapping
    /\ lang_switch_list = <<>>
    /\ pc = "idle"
    /\ runs = 0
    /\ total = 0
    /\ n = 0
    /\ separator = [phone |-> <<>>, word |-> <<" ">>]
    /\ strip = FALSE
    /\ output = <<>>
    /\ mappings = <<>>
    /\ outcome = "none"
    /\ warnings = <<>>
    /\ last = NoLast

\* A new backend instance replaces the one in use.
Construct(policy, stress, mapping) ==
    /\ pc = "idle"
    /\ policy \in valid_lang_switch
    /\ lang_switch' = policy
    /\ with_stress' = stress
    /\ sampa_mapping' = mapping
    /\ lang_switch_list' = <<>>
    /\ runs' = 0
    /\ total' = 0
    /\ n' = 0
    /\ separator' = [phone |-> <<>>, word |-> <<" ">>]
    /\ strip' = FALSE
    /\ output' = <<>>
    /\ mappings' = <<>>
    /\ outcome' = "none"
    /\ warnings' = <<>>
    /\ last' = NoLast
    /\ UNCHANGED pc

\* _phonemize_aux is entered with a text of tot lines: the local lists are
\* empty, the report is the instance's.
StartRun(tot, sep, st, maxruns) ==
    /\ pc = "idle"
    /\ runs < maxruns
    /\ tot >= 1
    /\ pc' = "loop"
    /\ runs' = runs + 1
    /\ total' = tot
    /\ n' = 0
    /\ separator' = sep
    /\ strip' = st
    /\ output' = <<>>
    /\ mappings' = <<>>
    /\ outcome' = "none"
    /\ warnings' = <<>>
    /\ last' = NoLast
    /\ UNCHANGED <<lang_switch, with_stress, sampa_mapping, lang_switch_list>>

\* One iteration of the loop: the engine returns raw for line n + 1.
ProcessUtterance(raw) ==
    /\ pc = "loop"
    /\ n < total
    /\ LET line == Normalize(raw)
           detected == LangSwitchDetected(line)
       IN  \E ret \in process_lang_switch(lang_switch, line) :
             LET skipped == ret.none \/ ret.v = <<>>
                 parsed  == IF skipped
                            THEN [err |-> FALSE, text |-> <<>>, table |-> <<>>]
                            ELSE ParseLine(ret.v)
                 out_line == IF skipped \/ parsed.err THEN <<>>
                             ELSE Assemble(parsed.text, with_stress, sampa_mapping,
                                           separator, strip)
             IN  /\ lang_switch_list' = IF detected
                                        THEN Append(lang_switch_list, n + 1)
                                        ELSE lang_switch_list
                 /\ last' = [lineno |-> n + 1, raw |-> raw, line |-> line,
                             detected |-> detected, ret |-> ret,
                             skipped |-> skipped, err |-> parsed.err,
                             text |-> parsed.text, table |-> parsed.table,
                             out |-> out_line]
                 /\ n' = n + 1
                 /\ IF skipped
                    THEN UNCHANGED <<pc, output, mappings, outcome>>
                    ELSE IF parsed.err
                    THEN /\ pc' = "idle"
                         /\ outcome' = "raised"
                         /\ UNCHANGED <<output, mappings>>
                    ELSE /\ mappings' = Append(mappings, parsed.table)
                         /\ output' = Append(output, out_line)
                         /\ UNCHANGED <<pc, outcome>>
    /\ UNCHANGED <<lang_switch, with_stress, sampa_mapping, runs, total,
                   separator, strip, warnings>>

\* After the last utterance: the warnings, and the two lists are returned.
Finish ==
    /\ pc = "loop"
    /\ n = total
    /\ warnings' = Summary(lang_switch, lang_switch_list)
    /\ outcome' = "returned"
    /\ pc' = "idle"
    /\ UNCHANGED <<lang_switch, with_stress, sampa_mapping, lang_switch_list,
                   runs, total, n, separator, strip, output, mappings, last>>

----------------------------------------------------------------------------
(* The engine's lines and the callers' arguments the model draws from.     *)

Sp == <<" ">>

FlagFr == <<"(", "f", "r", ")">>

FlagEn == <<"(", "e", "n", ")">>

\* 'h_@__l_ oU\n': doubled and trailing phone separators, a trailing newline
LinePlain == <<"h", "_", "@", "_", "_", "l", "_", " ", "o", "U", "\n">>

\* 'a b c'
LineWords == <<"a", " ", "b", " ", "c">>

\* "h-@ ˈl_ˌo'U": the four stress markers
LineStress == <<"h", "-", "@", " ", "ˈ", "l", "_", "ˌ", "o", "'", "U">>

\* 'a (fr) b'
LineFlag == <<"a">> \o Sp \o FlagFr \o Sp \o <<"b">>

\* '(fr) a (en) b (fr)'
LineFlags == FlagFr \o Sp \o <<"a">> \o Sp \o FlagEn \o Sp \o <<"b">> \o Sp \o FlagFr

\* '(fr)'
LineFlagOnly == FlagFr

\* '': the engine printed nothing
LineEmpty == <<>>

\* 'to be~|||~t@bi~|~|~ t@ bi'
LineAligned ==
    <<"t", "o", " ", "b", "e">> \o PairDelim \o <<"t", "@", "b", "i">> \o GroupDelim
    \o <<" ", "t", "@", " ", "b", "i">>

\* 'a~|||~eI~|~|~ (fr) eI': a mapping, and a flag in the phonemized text
LineAlignedFlag ==
    <<"a">> \o PairDelim \o <<"e", "I">> \o GroupDelim \o Sp \o FlagFr
    \o <<" ", "e", "I">>

\* '(x)~|||~Eks~|~|~ Eks': a parenthesis in a mapping's original text only
LineParenSource ==
    <<"(", "x", ")">> \o PairDelim \o <<"E", "k", "s">> \o GroupDelim
    \o <<" ", "E", "k", "s">>

\* 'ab~|~|~ a': a mapping without the '~|||~' delimiter
LineOneField == <<"a", "b">> \o GroupDelim \o <<" ", "a">>

\* 'a~|||~b~|||~c~|~|~ a': a mapping with two '~|||~' delimiters
LineThreeFields ==
    <<"a">> \o PairDelim \o <<"b">> \o PairDelim \o <<"c">> \o GroupDelim \o <<" ", "a">>

\* The phonemized text of LineExample: 'DIs Iz t@bi'
ExampleText == <<"D", "I", "s", " ", "I", "z", " ", "t", "@", "b", "i">>

\* 'this~|||~DIs~|~|~ is~|||~Iz~|~|~ to be~|||~t@bi~|~|~ DIs Iz t@bi'
\* (the line of the comment in _phonemize_aux, its text in ASCII)
LineExample ==
    <<"t", "h", "i", "s">> \o PairDelim \o <<"D", "I", "s">> \o GroupDelim
    \o <<" ", "i", "s">> \o PairDelim \o <<"I", "z">> \o GroupDelim
    \o <<" ", "t", "o", " ", "b", "e">> \o PairDelim \o <<"t", "@", "b", "i">>
    \o GroupDelim \o Sp \o ExampleText

\* "lr~|||~lV||ru~|~|~ l'V ru": one word mapped to two phoneme words
LineLunchroom ==
    <<"l", "r">> \o PairDelim \o <<"l", "V", "|", "|", "r", "u">> \o GroupDelim
    \o <<" ", "l", "'", "V", " ", "r", "u">>

\* Every str over the alphabet of length at most k.
RECURSIVE Strings(_, _)
Strings(alphabet, k) ==
    IF k = 0 THEN {<<>>}
    ELSE LET shorter == Strings(alphabet, k - 1)
         IN  shorter \cup {Append(x, c) : x \in {y \in shorter : Len(y) = k - 1},
                                          c \in alphabet}

\* 'a~|||~b~|~|~' field '~|||~p~|~|~ x': a second mapping whose original text
\* is field.
LineWithSource(field) ==
    <<"a">> \o PairDelim \o <<"b">> \o GroupDelim \o field \o PairDelim \o <<"p">>
    \o GroupDelim \o <<" ", "x">>

SourceFields == Strings({" ", "a"}, MaxFieldLen)

Tokens == Strings({"a", "b", "'"}, MaxTokenLen)

\* The symbol maps: one or two entries with distinct source symbols, in the
\* order of the file's lines.
SourceSymbols == {<<"a">>, <<"b">>, <<"a", "b">>}

TargetSymbols == {<<"a">>, <<"b">>, <<"x">>, <<"a", "a">>}

SymbolMaps ==
    {<<<<k, v>>>> : k \in SourceSymbols, v \in TargetSymbols}
    \cup {m \in {<<<<k1, v1>>, <<k2, v2>>>> :
                    k1 \in SourceSymbols, k2 \in SourceSymbols,
                    v1 \in TargetSymbols, v2 \in TargetSymbols} :
            m[1][1] # m[2][1]}

SepDefault == [phone |-> <<>>, word |-> Sp]

Separators ==
    {SepDefault,
     [phone |-> <<"_">>, word |-> Sp],
     [phone |-> <<".">>, word |-> <<";", ";">>],
     [phone |-> <<" ">>, word |-> <<"|">>],
     [phone |-> <<>>, word |-> <<>>]}

\* What the engine prints and what the callers pass, per specification.
MainInputs ==
    [policies |-> valid_lang_switch, stresses |-> {FALSE}, maps |-> {NoMapping},
     totals |-> 1..MaxUtterances, seps |-> {SepDefault}, strips |-> {TRUE},
     maxruns |-> 1,
     lines |-> {LinePlain, LineFlag, LineFlags, LineFlagOnly, LineEmpty,
                LineAligned, LineAlignedFlag, LineParenSource, LineOneField,
                LineThreeFields}]

ParseInputs ==
    [policies |-> {"keep-flags"}, stresses |-> {FALSE}, maps |-> {NoMapping},
     totals |-> {1}, seps |-> {SepDefault}, strips |-> {TRUE, FALSE},
     maxruns |-> 1,
     lines |-> {LinePlain, LineAligned, LineExample, LineLunchroom, LineOneField,
                LineThreeFields}
               \cup {LineWithSource(f) : f \in SourceFields}]

AssembleInputs ==
    [policies |-> {"keep-flags"}, stresses |-> {FALSE}, maps |-> {NoMapping},
     totals |-> 1..MaxUtterances, seps |-> Separators, strips |-> {TRUE, FALSE},
     maxruns |-> 1,
     lines |-> {LinePlain, LineWords, LineStress, LineEmpty}]

RemapInputs ==
    [policies |-> {"keep-flags"}, stresses |-> {FALSE, TRUE},
     maps |-> {NoMapping} \cup SymbolMaps,
     totals |-> {1}, seps |-> {SepDefault}, strips |-> {TRUE},
     maxruns |-> 1,
     lines |-> Tokens]

ReportInputs ==
    [policies |-> valid_lang_switch, stresses |-> {FALSE}, maps |-> {NoMapping},
     totals |-> 1..MaxUtterances, seps |-> {SepDefault}, strips |-> {TRUE},
     maxruns |-> MaxRuns,
     lines |-> {LineWords, LineFlag, LineFlags, LineOneField}]

InitOf(I) ==
    \E policy \in I.policies, stress \in I.stresses, mapping \in I.maps :
        Constructed(policy, stress, mapping)

NextOf(I) ==
    \/ \E policy \in I.policies, stress \in I.stresses, mapping \in I.maps :
           Construct(policy, stress, mapping)
    \/ \E tot \in I.totals, sep \in I.seps, st \in I.strips :
           StartRun(tot, sep, st, I.maxruns)
    \/ \E raw \in I.lines : ProcessUtterance(raw)
    \/ Finish

Init == InitOf(MainInputs)

Next == NextOf(MainInputs)

\* Runs of one or two utterances under each policy.
Spec == Init /\ [][Next]_vars

InitParse == InitOf(ParseInputs)

NextParse == NextOf(ParseInputs)

\* One utterance with mappings of every shape.
SpecParse == InitParse /\ [][NextParse]_vars

InitAssemble == InitOf(AssembleInputs)

NextAssemble == NextOf(AssembleInputs)

\* Lines without flags or mappings under every separator.
SpecAssemble == InitAssemble /\ [][NextAssemble]_vars

InitRemap == InitOf(RemapInputs)

NextRemap == NextOf(RemapInputs)

\* One-word lines under every symbol map.
SpecRemap == InitRemap /\ [][NextRemap]_vars

InitReport == InitOf(ReportInputs)

NextReport == NextOf(ReportInputs)

\* Several runs on one instance.
SpecReport == InitReport /\ [][NextReport]_vars

----------------------------------------------------------------------------
(* Properties.                                                             *)

\* The number of non-overlapping occurrences of p in s, from the left.
RECURSIVE Count(_, _)
Count(s, p) ==
    IF Len(s) < Len(p) \/ s = <<>> THEN 0
    ELSE IF StartsWith(s, p) THEN 1 + Count(Drop(s, Len(p)), p)
    ELSE Count(Tail(s), p)

\* A parenthesized substring: "(", at least one character, ")".
ContainsFlag(line) ==
    \E i \in 1..Len(line), j \in 1..Len(line) :
        j >= i + 2 /\ line[i] = "(" /\ line[j] = ")"

\* The segments of a line and its last segment.
Segments(line) == Split(line, GroupDelim)

TextOf(line) == Segments(line)[Len(Segments(line))]

\* line with the matches of the flag pattern cut out, one after the other.
RECURSIVE CutMatches(_, _)
CutMatches(line, flags) ==
    IF flags = <<>> THEN line
    ELSE IF StartsWith(line, Head(flags))
         THEN CutMatches(Drop(line, Len(Head(flags))), Tail(flags))
    ELSE <<Head(line)>> \o CutMatches(Tail(line), flags)

NoOuterSpace(phrase) ==
    phrase = <<>> \/ (phrase[1] # " " /\ phrase[Len(phrase)] # " ")

\* The words joined by sep, no separator after the last.
RECURSIVE Join(_, _)
Join(words, sep) ==
    IF words = <<>> THEN <<>>
    ELSE IF Len(words) = 1 THEN words[1]
    ELSE words[1] \o sep \o Join(Tail(words), sep)

\* An utterance has been processed and was not skipped by "continue".
Processed == last.lineno > 0 /\ ~last.skipped

\* The alignment table of LineExample.
ExampleTable ==
    <<<<<<"t", "h", "i", "s">>, <<"D", "I", "s">>>>,
      <<<<"i", "s">>, <<"I", "z">>>>,
      <<<<"t", "o", " ", "b", "e">>, <<"t", "@", "b", "i">>>>>>

\* C1 (as claimed): the split on '~|~|~' is the result of parsing: the last
\* segment is the phonemized text, every earlier segment gives one pair
\* (source phrase, phoneme phrase with '||' turned into a space), in order,
\* and the example line parses to its text without a leading space and to
\* the table [(this, DIs), (is, Iz), (to be, t@bi)].
C1_SplitIsParse ==
    (Processed /\ ~last.err) =>
        LET segs == Segments(last.ret.v)
        IN  /\ last.text = segs[Len(segs)]
            /\ Len(last.table) = Len(segs) - 1
            /\ \A i \in 1..Len(last.table) :
                   /\ last.table[i][2] =
                          Replace(Split(segs[i], PairDelim)[2], <<"|", "|">>, Sp)
                   /\ Count(last.table[i][2], <<"|", "|">>) = 0
            /\ (last.raw = LineExample =>
                   /\ last.text = ExampleText
                   /\ last.table = ExampleTable)

\* C2: on a line with a flag, keep-flags returns the line unchanged,
\* remove-flags returns it with the flags cut out and nothing else changed
\* (no flag text left, as many space-separated words as before), and
\* remove-utterance gives no output line; under each policy the line number
\* is appended to the report exactly once; a line without a flag is returned
\* unchanged and not recorded.
C2_PolicyEffects ==
    [][(pc = "loop" /\ n' = n + 1) =>
        LET line == last'.line
            ret  == last'.ret
        IN  IF ContainsFlag(line)
            THEN /\ lang_switch_list' = Append(lang_switch_list, n + 1)
                 /\ lang_switch = "keep-flags" => ret = Some(line)
                 /\ lang_switch = "remove-flags" =>
                        /\ ~ret.none
                        /\ ret.v = CutMatches(line, FindFlags(line))
                        /\ \A f \in Range(FindFlags(line)) : Count(ret.v, f) = 0
                        /\ Len(Split(ret.v, Sp)) = Len(Split(line, Sp))
                 /\ lang_switch = "remove-utterance" =>
                        /\ ret = None
                        /\ output' = output
            ELSE /\ ret = Some(line)
                 /\ lang_switch_list' = lang_switch_list]_vars

\* C2 witness: a line with three flags, two of them the same text, went
\* through remove-flags and was recorded once.
C2_Witness ==
    /\ lang_switch = "remove-flags"
    /\ last.raw = LineFlags
    /\ Len(FindFlags(last.line)) = 3
    /\ last.ret.v = <<" ", "a", " ", " ", "b", " ">>
    /\ lang_switch_list = <<1>>

\* C3 (as claimed): a returned run of N utterances has N alignment tables.
C3_TablePerUtterance ==
    outcome = "returned" => Len(mappings) = total

\* A mapping of the line does not split on '~|||~' into two fields.
Malformed(line) ==
    \E i \in 1..(Len(Segments(line)) - 1) :
        Len(Split(Segments(line)[i], PairDelim)) # 2

\* C4 (as claimed): a mapping that does not split on '~|||~' into exactly two
\* fields ends the run with an error, and nothing of it is stored.
C4_MalformedRaises ==
    (Processed /\ Malformed(last.ret.v)) =>
        /\ last.err
        /\ outcome = "raised"
        /\ Len(mappings) = 0

\* The words of the output line, each with its phone separators.
RECURSIVE OutWords(_)
OutWords(words) ==
    IF words = <<>> THEN <<>>
    ELSE <<Replace(Word(Head(words), with_stress, sampa_mapping), <<"_">>,
                   separator.phone)>> \o OutWords(Tail(words))

\* C5 (as claimed): with strip set the line is the processed words joined by
\* the word separator, the one trailing separator removed and nothing else;
\* the line then holds (word count - 1) word separators.
C5_OneSeparatorStripped ==
    (Processed /\ ~last.err /\ strip) =>
        LET words == Split(last.text, Sp)
        IN  /\ last.out = Join(OutWords(words), separator.word)
            /\ (separator.word # <<>> /\ Count(separator.phone, separator.word) = 0) =>
                   Count(last.out, separator.word) = Len(words) - 1

\* The source field of the i-th mapping of a line, as the parser reads it.
SourceField(line, i) == Split(Segments(line)[i], PairDelim)[1]

C7_ReportGrows ==
    [][/\ (runs' = 0) => lang_switch_list' = <<>>
       /\ (runs' # 0) =>
              /\ Len(lang_switch_list') >= Len(lang_switch_list)
              /\ SubSeq(lang_switch_list', 1, Len(lang_switch_list)) = lang_switch_list
       /\ (pc = "loop" /\ n' = n + 1) =>
              lang_switch_list' = IF ContainsFlag(last'.line)
                                  THEN Append(lang_switch_list, n + 1)
                                  ELSE lang_switch_list
       /\ ~(pc = "loop" /\ n' = n + 1) =>
              (lang_switch_list' = lang_switch_list \/ runs' = 0)
       /\ (outcome # "returned" /\ outcome' = "returned") =>
              /\ n = total
              /\ lang_switch_list' = lang_switch_list
              /\ (warnings' # <<>>) <=> (lang_switch_list # <<>>)
              /\ (warnings' # <<>>) =>
                     warnings'[1].nswitches = Len(lang_switch_list)
       /\ ~(outcome # "returned" /\ outcome' = "returned") =>
              (warnings' = warnings \/ warnings' = <<>>)]_vars

\* C7 witness: the second run on an instance returned, with a report that
\* holds line 1 of the first run and line 1 of the second, and the warning
\* names two entries.
C7_Witness ==
    /\ runs = 2
    /\ outcome = "returned"
    /\ lang_switch_list = <<1, 1>>
    /\ warnings # <<>>
    /\ warnings[1].nswitches = 2

\* C8 (as claimed): the policy acts on the text the parser returned: a
\* parenthesized substring that is in a mapping only neither records the line
\* nor discards the utterance, and the table is the one of the raw line.
C8_PolicyAfterParser ==
    (last.lineno > 0 /\ last.line # <<>> /\ ~ContainsFlag(TextOf(last.line))) =>
        /\ ~last.detected
        /\ last.lineno \notin Range(lang_switch_list)
        /\ ~last.skipped
        /\ last.err = ParseLine(last.line).err
        /\ last.table = ParseLine(last.line).table

\* The characters of the source symbols of a map.
SourceChars(mapping) ==
    UNION {Range(mapping[i][1]) : i \in 1..Len(mapping)}

NoTargetIsOtherSource(mapping) ==
    \A i, j \in 1..Len(mapping) : i # j => mapping[i][2] # mapping[j][1]

NoTargetHasSourceChar(mapping) ==
    \A i \in 1..Len(mapping) : Range(mapping[i][2]) \cap SourceChars(mapping) = {}

\* C9 (as claimed): when no target symbol is a source symbol of another entry,
\* the remap applied to a remapped token changes nothing; the stress markers
\* stripped from a stripped token change nothing.
C9_RemapTwice ==
    Processed =>
        /\ NoTargetIsOtherSource(sampa_mapping) =>
               Remap(last.out, sampa_mapping) = last.out
        /\ (~with_stress /\ sampa_mapping = NoMapping) =>
               RemoveStress(last.out, StressMarks) = last.out

\* C9 (amended): when no target symbol holds a character of a source symbol
\* of the map, the remap applied to a remapped token changes nothing; the
\* stress markers stripped from a stripped token change nothing.
C9_RemapTwiceDisjoint ==
    Processed =>
        /\ NoTargetHasSourceChar(sampa_mapping) =>
               Remap(last.out, sampa_mapping) = last.out
        /\ (~with_stress /\ sampa_mapping = NoMapping) =>
               RemoveStress(last.out, StressMarks) = last.out

\* C9 witness: "a'b" lost its stress marker and was remapped to 'xx' by
\* (a -> x), (b -> x).
C9_Witness ==
    /\ sampa_mapping = <<<<<<"a">>, <<"x">>>>, <<<<"b">>, <<"x">>>>>>
    /\ last.raw = <<"a", "'", "b">>
    /\ ~with_stress
    /\ last.out = <<"x", "x">>
    /\ output = <<<<"x", "x">>>>

\* C10 (as claimed): only remove-utterance on a line with a flag gives no
\* output line; under the other two policies a returned run has one output
\* line per utterance.
C10_OnlyPolicyDrops ==
    /\ (last.lineno > 0 /\ last.skipped) =>
           (lang_switch = "remove-utterance" /\ ContainsFlag(last.line))
    /\ (outcome = "returned" /\ lang_switch # "remove-utterance") =>
           Len(output) = total

====
